---- MODULE Spec2Model ----
(***************************************************************************)
(* Model of awive's configuration loading (src/awive/config.py):           *)
(* BaseModel.from_fp, the field population of ConfigGcp, and                *)
(* ConfigGcp.model_post_init with ConfigGcp.calculate_meters.               *)
(*                                                                         *)
(* Numbers.  Distances are small non-negative integers.  A looked-up        *)
(* distance is an integer, NoneVal standing for Python's None.  The         *)
(* eigendecomposition of line 82 is modelled by the signs of the two        *)
(* retained eigenvalues: the signs of the exact eigenvalues are computed    *)
(* from the characteristic polynomial of the (scaled, integer) double       *)
(* centred matrix, and an eigenvalue that is exactly zero is returned by    *)
(* the floating-point routine as a tiny negative, zero or tiny positive     *)
(* number (a choice of the action).  A reconstructed coordinate is          *)
(* RealCoord (some non-zero real), 0, or NaNCoord.                          *)
(***************************************************************************)
EXTENDS Integers, Sequences, FiniteSets, TLC

VARIABLES pc, entry, fp_suffix, opened, doc, given,
          pixels, meters, distances, d, eigvals, calc_called, error, result

vars == <<pc, entry, fp_suffix, opened, doc, given,
          pixels, meters, distances, d, eigvals, calc_called, error, result>>

-----------------------------------------------------------------------------
(* Bounds of the model *)

MaxPixels == 5
MaxMeters == 5
MaxDist == 2

(* Program constants *)

MinPoints == 4
GcpN == 4
dim == 2

(* Encodings *)

NoneVal == -1
NaNCoord == -2
RealCoord == 1

None == <<>>
Some(x) == <<x>>

ErrNotJson == "File must be a json file"
ErrFour == "at least four coordinates are required"
ErrSource == "meters or distances must be provided"
ErrCount == "distances must have the correct number of elements"
ErrLength == "pixels and meters must have the same length"
ErrIsnanType == "TypeError: ufunc 'isnan' not supported for the input types"
ErrOpen == "OSError"
ErrJson == "JSONDecodeError"
ErrValidation == "ValidationError"
NoError == "none"

-----------------------------------------------------------------------------
(* Python values *)

Get(dict, key) == IF key \in DOMAIN dict THEN dict[key] ELSE NoneVal

Truthy(v) == v # NoneVal /\ v # 0

PyOr(a, b) == IF Truthy(a) THEN a ELSE b

(* ConfigGcp.calculate_meters.di *)
di(dict, i, j) == PyOr(Get(dict, <<i, j>>), Get(dict, <<j, i>>))

(* the 4 x 4 array d of calculate_meters, lines 60-67 *)
DistanceMatrix(dict) ==
    << <<0, di(dict, 0, 1), di(dict, 0, 2), di(dict, 0, 3)>>,
       <<di(dict, 1, 0), 0, di(dict, 1, 2), di(dict, 1, 3)>>,
       <<di(dict, 2, 0), di(dict, 2, 1), 0, di(dict, 2, 3)>>,
       <<di(dict, 3, 0), di(dict, 3, 1), di(dict, 3, 2), 0>> >>

Idx == 1..GcpN

HasNone(m) == \E i \in Idx : \E j \in Idx : m[i][j] = NoneVal

-----------------------------------------------------------------------------
(* Linear algebra of calculate_meters, in exact integer arithmetic.  The    *)
(* matrices are 4 x 4 tuples of tuples, as the array d is.                  *)

Dot(a, b, i, j) ==
    a[i][1] * b[1][j] + a[i][2] * b[2][j] + a[i][3] * b[3][j] + a[i][4] * b[4][j]

MatRow(a, b, i) == <<Dot(a, b, i, 1), Dot(a, b, i, 2), Dot(a, b, i, 3), Dot(a, b, i, 4)>>

MatMulValues(a, b) == <<MatRow(a, b, 1), MatRow(a, b, 2), MatRow(a, b, 3), MatRow(a, b, 4)>>

(* a @ b, each operand computed once *)
MatMul(a, b) == CHOOSE r \in {MatMulValues(av, bv) : av \in {a}, bv \in {b}} : TRUE

Trace(a) == a[1][1] + a[2][2] + a[3][3] + a[4][4]

(* n * h, where h = eye(n) - ones((n, n)) / n *)
ScaledH ==
    << <<GcpN - 1, -1, -1, -1>>,
       <<-1, GcpN - 1, -1, -1>>,
       <<-1, -1, GcpN - 1, -1>>,
       <<-1, -1, -1, GcpN - 1>> >>

SquaredRow(r) == <<r[1] * r[1], r[2] * r[2], r[3] * r[3], r[4] * r[4]>>

(* d ** 2 *)
Squared(m) == <<SquaredRow(m[1]), SquaredRow(m[2]), SquaredRow(m[3]), SquaredRow(m[4])>>

NegatedRow(r) == <<0 - r[1], 0 - r[2], 0 - r[3], 0 - r[4]>>

Negated(m) == <<NegatedRow(m[1]), NegatedRow(m[2]), NegatedRow(m[3]), NegatedRow(m[4])>>

(* 2 * n^2 * b, where b = -0.5 * h @ d_squared @ h *)
ScaledB(m) == Negated(MatMul(MatMul(ScaledH, Squared(m)), ScaledH))

(* The sign pattern of the eigenvalues of a symmetric matrix with the       *)
(* eigenvalue 0 (b has it, with the eigenvector of ones), from the traces   *)
(* t1, t2, t3 of its first three powers: e1, e2, e3 are the elementary      *)
(* symmetric functions of the other three eigenvalues, all real, so the     *)
(* rule of signs gives the number of positive ones exactly.                 *)
PositiveCount(t1, t2, t3) ==
    LET e1 == t1
        e2 == (t1 * t1 - t2) \div 2
        e3 == (t1 * t1 * t1 - 3 * t1 * t2 + 2 * t3) \div 6
    IN  IF e3 > 0 THEN (IF e2 > 0 /\ e1 > 0 THEN 3 ELSE 1)
        ELSE IF e3 < 0 THEN 2
        ELSE IF e2 > 0 THEN 2
        ELSE IF e2 < 0 THEN 1
        ELSE IF e1 > 0 THEN 1
        ELSE 0

(* the number of positive eigenvalues of b *)
NumPositive(b) ==
    CHOOSE p \in 0..(GcpN - 1) :
        \E bv \in {b} : \E b2 \in {MatMul(bv, bv)} : \E b3 \in {MatMul(b2, bv)} :
            p = PositiveCount(Trace(bv), Trace(b2), Trace(b3))

(* Signs a floating-point eigenvalue routine can return for an eigenvalue   *)
(* that is exactly zero.                                                    *)
Rounding == {-1, 0, 1}

RoundingPairs == {r \in Rounding \X Rounding : r[1] >= r[2]}

(* eig, argsort descending, [:dim]: the signs of the two retained values *)
RetainedSigns(b, noise) ==
    LET p == NumPositive(b)
    IN  IF p >= dim THEN <<1, 1>>
        ELSE IF p = 1 THEN <<1, noise[2]>>
        ELSE noise

Symmetric(m) == \A i \in Idx : \A j \in Idx : m[i][j] = m[j][i]

(* What eig and the sort can give for b.  When d is not symmetric (a pair   *)
(* stored in both orders with two values) b is not either, nothing is known *)
(* of its eigenvalues and any pair of signs stands for them.                *)
EigOutcomes(b) ==
    IF Symmetric(b)
    THEN {RetainedSigns(b, noise) : noise \in RoundingPairs}
    ELSE RoundingPairs

(* np.sqrt of a retained eigenvalue times a unit eigenvector's component *)
SqrtScaled(sign) ==
    IF sign < 0 THEN NaNCoord ELSE IF sign = 0 THEN 0 ELSE RealCoord

(* x[:, 0] *= -1 *)
Flip(c) == IF c = NaNCoord THEN NaNCoord ELSE IF c = 0 THEN 0 ELSE RealCoord

(* x.tolist(): one (x, y) pair per row of the 4 x 4 matrix *)
Coordinates(signs) ==
    [r \in 1..GcpN |-> <<Flip(SqrtScaled(signs[1])), SqrtScaled(signs[2])>>]

-----------------------------------------------------------------------------
(* Inputs *)

Pix(n) == [i \in 1..n |-> <<i, i>>]

Met(k) == [i \in 1..k |-> <<i, 2 * i>>]

Dist == 0..MaxDist

(* the keys (i, j), i < j, over the points 0..n-1 *)
UpperPairs(n) == {p \in (0..(n - 1)) \X (0..(n - 1)) : p[1] < p[2]}

AllOnes(n) == [p \in UpperPairs(n) |-> 1]

(* how one unordered pair is stored: the value under (i, j) and the value   *)
(* under (j, i), NoneVal for a key that is not in the mapping               *)
Cells == (Dist \cup {NoneVal}) \X (Dist \cup {NoneVal})

WithCell(base, p, c) ==
    LET q == <<p[2], p[1]>>
        keys == ((DOMAIN base) \ {p, q})
                  \cup (IF c[1] # NoneVal THEN {p} ELSE {})
                  \cup (IF c[2] # NoneVal THEN {q} ELSE {})
    IN  [k \in keys |-> IF k = p THEN c[1] ELSE IF k = q THEN c[2] ELSE base[k]]

(* a complete mapping of ones over n points, one pair stored in any way *)
Simple(n) ==
    {AllOnes(n)} \cup {WithCell(AllOnes(n), p, c) : p \in UpperPairs(n), c \in Cells}

(* any positive distances over the 4 points, one pair stored in any way *)
Rich ==
    {WithCell(b, p, c) : b \in [UpperPairs(GcpN) -> 1..MaxDist],
                         p \in UpperPairs(GcpN), c \in Cells}

Dicts(n) == Simple(n) \cup Simple(GcpN) \cup (IF n = GcpN THEN Rich ELSE {})

DistChoices(n, k) ==
    {None} \cup {Some(f) : f \in (IF k = 0 THEN Dicts(n) ELSE Simple(n))}

Suffixes == {".json", ".yaml", ""}

(* a parsed document: whether the sections other than dataset.gcp fit the   *)
(* schema, the list under the key that is the alias of both pixels and      *)
(* meters, and the value under the alias of distances (a JSON object's keys *)
(* are strings, so only an empty mapping or null validates)                 *)
Docs ==
    [sections_valid : BOOLEAN,
     coords : {Pix(n) : n \in 0..MaxPixels},
     distances : {None, Some(<<>>)}]

-----------------------------------------------------------------------------
(* Conditions of the code *)

(* a suffix test that rejects only a path without extension *)
NotJsonOnlyEmpty(suffix) == suffix = ""

(* from_fp: fp.suffix != ".json" *)
NotJson(suffix) == suffix # ".json"

(* an off-by-one minimum: three points accepted *)
TooFewPixelsOffByOne(px) == Len(px) < MinPoints - 1

(* model_post_init: len(self.pixels) < 4 *)
TooFewPixels(px) == Len(px) < MinPoints

(* the emptiness test of meters inverted *)
NoSourceInverted(mt, ds) == Len(mt) # 0 /\ ds = None

(* model_post_init: len(self.meters) == 0 and self.distances is None *)
NoSource(mt, ds) == Len(mt) = 0 /\ ds = None

(* reconstruction whenever distances are given, meters given or not *)
OnlyDistancesIgnoringMeters(mt, ds) == ds # None

(* model_post_init: len(self.meters) == 0 and self.distances is not None *)
OnlyDistances(mt, ds) == Len(mt) = 0 /\ ds # None

(* model_post_init: len(self.distances) != len(pixels) * (len(pixels) - 1) / 2 *)
CountDiffers(px, dict) ==
    2 * Cardinality(DOMAIN dict) # Len(px) * (Len(px) - 1)

(* a final check that only rejects surplus meters *)
LengthsDifferOneSided(px, mt) == Len(px) < Len(mt)

(* model_post_init: len(self.pixels) != len(self.meters) *)
LengthsDiffer(px, mt) == Len(px) # Len(mt)

-----------------------------------------------------------------------------
(* The state machine *)

Init ==
    /\ pc = "start"
    /\ entry = "none"
    /\ fp_suffix = ""
    /\ opened = FALSE
    /\ doc = None
    /\ given = None
    /\ pixels = <<>>
    /\ meters = <<>>
    /\ distances = None
    /\ d = None
    /\ eigvals = None
    /\ calc_called = FALSE
    /\ error = NoError
    /\ result = "None"

Raise(e) ==
    /\ pc' = "raised"
    /\ error' = e

(* Config.from_fp(fp) is called *)
CallFromFp ==
    /\ pc = "start"
    /\ \E s \in Suffixes : fp_suffix' = s
    /\ entry' = "from_fp"
    /\ pc' = "from_fp"
    /\ UNCHANGED <<opened, doc, given, pixels, meters, distances, d, eigvals,
                   calc_called, error, result>>

(* from_fp, lines 16-17 *)
CheckSuffix ==
    /\ pc = "from_fp"
    /\ IF NotJson(fp_suffix)
       THEN Raise(ErrNotJson)
       ELSE pc' = "open" /\ error' = error
    /\ UNCHANGED <<entry, fp_suffix, opened, doc, given, pixels, meters,
                   distances, d, eigvals, calc_called, result>>

(* from_fp, line 18: fp.open() and json.load *)
JsonLoad ==
    /\ pc = "open"
    /\ \E outcome \in {"missing", "malformed", "ok"} :
         IF outcome = "missing"
         THEN Raise(ErrOpen) /\ UNCHANGED <<opened, doc>>
         ELSE IF outcome = "malformed"
         THEN Raise(ErrJson) /\ opened' = TRUE /\ doc' = doc
         ELSE /\ opened' = TRUE
              /\ \E x \in Docs : doc' = Some(x)
              /\ pc' = "config"
              /\ error' = error
    /\ UNCHANGED <<entry, fp_suffix, given, pixels, meters, distances, d,
                   eigvals, calc_called, result>>

(* from_fp, line 18: Config built from the document.  The sections are      *)
(* validated; the                                                           *)
(* fields pixels and meters of ConfigGcp have the same alias and are both   *)
(* read from that key.                                                      *)
ConfigValidate ==
    /\ pc = "config"
    /\ IF ~doc[1].sections_valid
       THEN Raise(ErrValidation) /\ UNCHANGED <<given, pixels, meters, distances>>
       ELSE /\ pixels' = doc[1].coords
            /\ meters' = doc[1].coords
            /\ distances' = doc[1].distances
            /\ given' = Some([pixels |-> doc[1].coords, meters |-> doc[1].coords,
                              distances |-> doc[1].distances])
            /\ pc' = "post_init"
            /\ error' = error
    /\ UNCHANGED <<entry, fp_suffix, opened, doc, d, eigvals, calc_called, result>>

(* a ConfigGcp is built from field values (model_construct, or a direct     *)
(* call of model_post_init on an object)                                    *)
Construct ==
    /\ pc = "start"
    /\ \E n \in 0..MaxPixels : \E k \in 0..MaxMeters :
         \E ds \in DistChoices(n, k) :
            /\ pixels' = Pix(n)
            /\ meters' = Met(k)
            /\ distances' = ds
            /\ given' = Some([pixels |-> Pix(n), meters |-> Met(k), distances |-> ds])
    /\ entry' = "direct"
    /\ pc' = "post_init"
    /\ UNCHANGED <<fp_suffix, opened, doc, d, eigvals, calc_called, error, result>>

(* model_post_init, lines 94-95 *)
CheckPixels ==
    /\ pc = "post_init"
    /\ IF TooFewPixels(pixels)
       THEN Raise(ErrFour)
       ELSE pc' = "pixels_checked" /\ error' = error
    /\ UNCHANGED <<entry, fp_suffix, opened, doc, given, pixels, meters,
                   distances, d, eigvals, calc_called, result>>

(* model_post_init, lines 96-97 *)
CheckSource ==
    /\ pc = "pixels_checked"
    /\ IF NoSource(meters, distances)
       THEN Raise(ErrSource)
       ELSE pc' = "source_checked" /\ error' = error
    /\ UNCHANGED <<entry, fp_suffix, opened, doc, given, pixels, meters,
                   distances, d, eigvals, calc_called, result>>

(* calculate_meters(distances), lines 54-91, called from line 102 *)
CalculateMeters(dict) ==
    /\ calc_called' = TRUE
    /\ d' = Some(DistanceMatrix(dict))
    /\ IF HasNone(DistanceMatrix(dict))
       THEN Raise(ErrIsnanType) /\ UNCHANGED <<meters, eigvals>>
       ELSE \E signs \in EigOutcomes(ScaledB(DistanceMatrix(dict))) :
              /\ eigvals' = Some(signs)
              /\ meters' = Coordinates(signs)
              /\ pc' = "resolved"
              /\ error' = error

(* model_post_init, lines 98-106 *)
ResolveMeters ==
    /\ pc = "source_checked"
    /\ IF OnlyDistances(meters, distances)
       THEN IF CountDiffers(pixels, distances[1])
            THEN CalculateMeters(distances[1])
            ELSE Raise(ErrCount) /\ UNCHANGED <<meters, d, eigvals, calc_called>>
       ELSE /\ pc' = "resolved"
            /\ UNCHANGED <<meters, d, eigvals, calc_called, error>>
    /\ UNCHANGED <<entry, fp_suffix, opened, doc, given, pixels, distances, result>>

(* model_post_init, lines 108-109 *)
CheckLengths ==
    /\ pc = "resolved"
    /\ IF LengthsDiffer(pixels, meters)
       THEN Raise(ErrLength)
       ELSE pc' = "validated" /\ error' = error
    /\ UNCHANGED <<entry, fp_suffix, opened, doc, given, pixels, meters,
                   distances, d, eigvals, calc_called, result>>

(* the constructor returns: the ConfigGcp, or from_fp's Config *)
Return ==
    /\ pc = "validated"
    /\ pc' = "returned"
    /\ result' = IF entry = "from_fp" THEN "Config" ELSE "ConfigGcp"
    /\ UNCHANGED <<entry, fp_suffix, opened, doc, given, pixels, meters,
                   distances, d, eigvals, calc_called, error>>

Next ==
    \/ CallFromFp
    \/ CheckSuffix
    \/ JsonLoad
    \/ ConfigValidate
    \/ Construct
    \/ CheckPixels
    \/ CheckSource
    \/ ResolveMeters
    \/ CheckLengths
    \/ Return

Spec == Init /\ [][Next]_vars

-----------------------------------------------------------------------------
(* Properties *)

(* the ConfigGcp fields have been set; In is what they were set to *)
Started == given # None
In == given[1]

AfterPixels == Started /\ pc # "post_init"
AfterSource == Started /\ pc \notin {"post_init", "pixels_checked"}
AfterResolve ==
    Started /\ pc \notin {"post_init", "pixels_checked", "source_checked"}
Succeeded == Started /\ pc \in {"validated", "returned"}

DistancesOnly ==
    Len(In.pixels) >= MinPoints /\ In.meters = <<>> /\ In.distances # None

PairCount(n) == (n * (n - 1)) \div 2

(* exactly one entry for every unordered pair of the n points *)
OnePerPair(dict, n) ==
    /\ Cardinality(DOMAIN dict) = PairCount(n)
    /\ \A p \in UpperPairs(n) : p \in DOMAIN dict \/ <<p[2], p[1]>> \in DOMAIN dict

HasNaN(coords) ==
    \E r \in DOMAIN coords : coords[r][1] = NaNCoord \/ coords[r][2] = NaNCoord

(* C1: with at least 4 pixels, no meters and a distances mapping whose      *)
(* number of entries is not C(n,2), construction fails with the             *)
(* wrong-number-of-distances error and calculate_meters is never called.    *)
C1_PartialDistancesRejected ==
    (AfterResolve /\ DistancesOnly
       /\ Cardinality(DOMAIN In.distances[1]) # PairCount(Len(In.pixels)))
    => (pc = "raised" /\ error = ErrCount /\ ~calc_called)

(* C2: with at least 4 pixels, no meters and exactly one distance for every *)
(* unordered pair, the reconstruction runs, its result becomes meters, and  *)
(* no error is raised: len(meters) = len(pixels).                           *)
C2_CompleteDistancesReconstructed ==
    (AfterResolve /\ DistancesOnly /\ OnePerPair(In.distances[1], Len(In.pixels)))
    => (calc_called /\ error = NoError /\ pc # "raised"
          /\ Len(meters) = Len(pixels))

(* C3: with fewer than 4 pixels construction fails with the                 *)
(* at-least-four error whatever meters and distances are, and neither the   *)
(* distance matrix nor the reconstruction is ever touched.                  *)
C3_TooFewPixelsFails ==
    (AfterPixels /\ Len(In.pixels) < MinPoints)
    => (pc = "raised" /\ error = ErrFour /\ ~calc_called /\ d = None
          /\ meters = In.meters /\ result = "None")

C3_Witness ==
    /\ Started
    /\ pc = "raised"
    /\ error = ErrFour
    /\ In.meters = <<>>
    /\ In.distances # None
    /\ Len(In.pixels) = MinPoints - 1

(* C4: a construction that succeeds with meters given keeps exactly those   *)
(* meters and never calls calculate_meters, distances given or not.         *)
C4_MetersPassThrough ==
    (Succeeded /\ In.meters # <<>>)
    => (meters = In.meters /\ ~calc_called /\ d = None)

C4_Witness ==
    /\ Started
    /\ pc = "returned"
    /\ entry = "direct"
    /\ In.meters # <<>>
    /\ In.distances # None
    /\ meters = In.meters

(* C5: the matrix assembled from the lookups is symmetric: the lookup of    *)
(* (i, j) gives what the lookup of (j, i) gives, for all i # j.             *)
C5_LookupSymmetric ==
    d # None => \A i \in Idx : \A j \in Idx : d[1][i][j] = d[1][j][i]

(* C6: a construction that succeeds has at least 4 pixels and as many       *)
(* meters as pixels; when the resolved meters differ in length from the     *)
(* pixels, the next step raises the same-length error and returns nothing.  *)
C6_Returned ==
    Succeeded => (Len(pixels) >= MinPoints /\ Len(pixels) = Len(meters))

C6_Step ==
    (pc = "resolved" /\ Len(pixels) # Len(meters))
    => (pc' = "raised" /\ error' = ErrLength /\ result' = "None")

C6_LengthsMatch == [](C6_Returned) /\ [][C6_Step]_vars

C6_Witness ==
    /\ pc = "raised"
    /\ error = ErrLength
    /\ Len(pixels) = MinPoints + 1
    /\ Len(meters) = MinPoints

(* C7: with at least 4 pixels, no meters and distances None, construction   *)
(* fails with the meters-or-distances error and returns nothing.            *)
C7_NoSourceFails ==
    (AfterSource /\ Len(In.pixels) >= MinPoints /\ In.meters = <<>>
       /\ In.distances = None)
    => (pc = "raised" /\ error = ErrSource /\ result = "None")

C7_Witness ==
    /\ Started
    /\ pc = "raised"
    /\ error = ErrSource
    /\ Len(In.pixels) >= MinPoints
    /\ In.meters = <<>>
    /\ In.distances = None

(* C8: from_fp is all or nothing: a suffix other than .json raises before   *)
(* the file is opened or parsed; after any error nothing runs and no Config *)
(* is returned; a Config is returned only after the file was read, every    *)
(* section validated and the GCP checks passed.                             *)
C8_FromFpAllOrNothing ==
    entry = "from_fp" =>
      /\ (fp_suffix # ".json" /\ pc # "from_fp")
            => (pc = "raised" /\ error = ErrNotJson /\ ~opened /\ doc = None)
      /\ error # NoError => (pc = "raised" /\ result = "None")
      /\ pc = "raised" => (error # NoError /\ result = "None")
      /\ result # "None" =>
            /\ result = "Config"
            /\ pc = "returned"
            /\ opened
            /\ doc # None
            /\ doc[1].sections_valid
            /\ Len(pixels) >= MinPoints
            /\ Len(pixels) = Len(meters)

C8_Witness ==
    /\ entry = "from_fp"
    /\ pc = "raised"
    /\ error = ErrNotJson
    /\ fp_suffix = ".yaml"
    /\ ~opened

====
